---------------------------- MODULE Spec2Model ----------------------------
(***************************************************************************)
(* Craigslist listing monitor.  Two programs live in the repository and    *)
(* both are modelled here, each under its own specification:               *)
(*                                                                         *)
(*   SpecGo  craigslist_bot.go : ticker loop, synchronous store calls      *)
(*   SpecJs  main.js           : setInterval, callback style store calls   *)
(*                                                                         *)
(* Texts on which the code computes (price, metadata) are sequences of     *)
(* one-character strings; titles and URLs are only compared and stay       *)
(* opaque strings.  Time is counted in minutes.                            *)
(***************************************************************************)
EXTENDS Integers, Sequences, FiniteSets, TLC

VARIABLES
    now,          \* wall clock, minutes
    store,        \* table listings: sequence of rows in rowid order
    notes,        \* listing_url -> notifications dispatched for it (history)
    cycles,       \* number of cycles started so far
    last,         \* the candidate processed by the latest insert (history)
    cyc,          \* Go: bookkeeping of the latest cycle started (history)
    swept,        \* the statement executed last was a DELETE that succeeded
    pc,           \* Go: position of main's for/select loop
    listings,     \* Go: the slice returned by scrapeListings
    idx,          \* Go: index of the next element of the range loop
    tick,         \* Go: a tick is buffered in checkTicker.C
    delay,        \* Go: seconds of the time.Sleep in progress
    jsMain,       \* JS: position of main()
    running,      \* JS: processListings calls awaiting scrapeListings
    pending,      \* JS: statements handed to db.run, not yet executed
    orphans,      \* JS: browsers left open by scrapeListings calls that ended
    html          \* the body the extraction is applied to, when taken alone

vars == <<now, store, notes, cycles, last, cyc, swept, pc, listings, idx, tick,
          delay, jsMain, running, pending, orphans, html>>

goVars == <<pc, listings, idx, tick, delay>>
jsVars == <<jsMain, running, pending, orphans>>
hist == <<last, cyc, swept>>

----------------------------------------------------------------------------
(* Bounds of the model *)

GoMaxCycles == 3      \* Go: cycles started in one behaviour
JsMaxCalls == 3       \* JS: calls of processListings in one behaviour
MaxNotes == 2         \* notifications counted per listing_url
MaxItems == 2         \* elements on one rendered page
MaxClockSteps == 2    \* times the clock is seen to advance
ClockStep == 45       \* minutes by which the clock is seen to advance
MaxListings == 50     \* Go: listings of the cycle whose sleep is computed alone
MaxExtracts == 2      \* Go: extractions applied to one body

(* Program constants *)

Horizon == 60         \* datetime('now', '-1 hour')
SleepBase == 2        \* time.Duration(2+len(listings)%3)
SleepMod == 3

StartTime == Horizon
MaxTime == StartTime + MaxClockSteps * ClockStep

----------------------------------------------------------------------------
(* Text helpers: strings.TrimSpace, strings.ToLower, strings.Split *)

RECURSIVE TrimLeft(_)
TrimLeft(s) ==
    IF s # <<>> /\ Head(s) = " " THEN TrimLeft(Tail(s)) ELSE s

RECURSIVE TrimRight(_)
TrimRight(s) ==
    IF s # <<>> /\ s[Len(s)] = " "
    THEN TrimRight(SubSeq(s, 1, Len(s) - 1))
    ELSE s

TrimSpace(s) == TrimRight(TrimLeft(s))

LowerChar(c) ==
    CASE c = "F" -> "f"
      [] c = "R" -> "r"
      [] c = "E" -> "e"
      [] OTHER   -> c

ToLower(s) == [i \in 1..Len(s) |-> LowerChar(s[i])]

(* Split(s, d): the parts of s between occurrences of the character d;    *)
(* always at least one part.                                               *)
RECURSIVE SplitFrom(_, _, _)
SplitFrom(s, d, cur) ==
    IF s = <<>> THEN <<cur>>
    ELSE IF Head(s) = d THEN <<cur>> \o SplitFrom(Tail(s), d, <<>>)
    ELSE SplitFrom(Tail(s), d, Append(cur, Head(s)))

Split(s, d) == SplitFrom(s, d, <<>>)

GoDelim == "·"        \* craigslist_bot.go: strings.Split(metaText, "·")
JsDelim == "路"       \* main.js: metaText.split('路')

free == <<"f", "r", "e", "e">>
parens == <<"(", ")">>

(* The price condition of both programs *)
GoQualifies(price) ==
    ToLower(price) = free \/ price = <<>> \/ price = parens

----------------------------------------------------------------------------
(* The rendered page: a sequence of li.cl-search-result elements *)

NoAttr == "<absent>"

Elements ==
    { [title |-> "sofa",  href |-> "/a",  price |-> <<" ", "F", "R", "E", "E">>,
       meta |-> <<"1", "h", "·", " ", "N", "C">>],
      [title |-> "desk",  href |-> "/a",  price |-> <<"$", "5">>,
       meta |-> <<"5", "m", "·", "S", "C">>],
      [title |-> NoAttr,  href |-> "/b",  price |-> <<>>,
       meta |-> <<"2", "h", "·", "N", "C">>],
      [title |-> "lamp",  href |-> "/b",  price |-> <<"(", ")">>,
       meta |-> <<"5", "m", "路", "S", "C">>],
      [title |-> "bike",  href |-> NoAttr, price |-> <<"f", "r", "e", "e">>,
       meta |-> <<>>] }

Urls == {"/a", "/b", ""}

Pages == UNION {[1..n -> Elements] : n \in 0..MaxItems}

----------------------------------------------------------------------------
(* The store: statements of craigslist_bot.go and main.js *)

HasUrl(db, url) == \E i \in 1..Len(db) : db[i].listing_url = url

(* The database file: whether it has the table listings, and its rows *)
NoTable == [exists |-> FALSE, rows |-> <<>>]
Table(rows) == [exists |-> TRUE, rows |-> rows]

(* A setup that creates the table anew *)
SqlDropAndCreateTable(file) ==
    Table(<<>>)

(* CREATE TABLE IF NOT EXISTS listings (...) *)
SqlCreateTable(file) ==
    IF file.exists THEN file ELSE Table(<<>>)

(* An INSERT that does not look for the listing_url in the table *)
SqlInsertAlways(db, row) ==
    [db |-> Append(db, row), changes |-> 1]

(* An INSERT that overwrites the row of a listing_url it finds stored *)
SqlUpsert(db, row) ==
    IF HasUrl(db, row.listing_url)
    THEN [db |-> [i \in 1..Len(db) |->
                    IF db[i].listing_url = row.listing_url THEN row
                    ELSE db[i]],
          changes |-> 1]
    ELSE [db |-> Append(db, row), changes |-> 1]

(* INSERT ... ON CONFLICT(listing_url) DO NOTHING, listing_url UNIQUE *)
SqlInsert(db, row) ==
    IF HasUrl(db, row.listing_url)
    THEN [db |-> db, changes |-> 0]
    ELSE [db |-> Append(db, row), changes |-> 1]

----------------------------------------------------------------------------
(* craigslist_bot.go *)

(* The callback of doc.Find(...).Each on one element: what it appends to   *)
(* listings, or the panic of strings.Split(metaText, "·")[1].  Posted is   *)
(* time.Now(), filled in by GoListing.                                     *)
GoExtractOne(e) ==
    LET title == IF e.title = NoAttr THEN "No title" ELSE e.title
        parts == Split(TrimSpace(e.meta), GoDelim)
    IN  IF e.href = NoAttr THEN [panic |-> FALSE, out |-> <<>>]
        ELSE IF Len(parts) < 2 THEN [panic |-> TRUE, out |-> <<>>]
        ELSE [panic |-> FALSE,
              out |-> << [title |-> title,
                          price |-> TrimSpace(e.price),
                          city |-> TrimSpace(parts[2]),
                          listing_url |-> e.href] >>]

RECURSIVE GoExtract(_)
GoExtract(items) ==
    IF items = <<>> THEN [panic |-> FALSE, out |-> <<>>]
    ELSE LET h == GoExtractOne(Head(items))
         IN  IF h.panic THEN [panic |-> TRUE, out |-> <<>>]
             ELSE LET r == GoExtract(Tail(items))
                  IN  [panic |-> r.panic, out |-> h.out \o r.out]

(* Listing{Title, Price, City, Posted: time.Now(), ListingURL} *)
GoListing(x, t) ==
    [title |-> x.title, price |-> x.price, city |-> x.city, posted |-> t,
     listing_url |-> x.listing_url]

GoListings(out, t) == [i \in 1..Len(out) |-> GoListing(out[i], t)]

(* Elements of a page with a detail link, and those among them whose       *)
(* metadata has no second part behind the delimiter d                      *)
Linked(p) == {i \in 1..Len(p) : p[i].href # NoAttr}
Short(p, d) == {i \in Linked(p) : Len(Split(TrimSpace(p[i].meta), d)) < 2}

(* What scrapeListings can do once the page has loaded: for every page,    *)
(* the result of the Each loop and the number of its elements with short   *)
(* metadata                                                                *)
GoScrapes ==
    {[panic |-> GoExtract(p).panic, out |-> GoExtract(p).out,
      short |-> Cardinality(Short(p, GoDelim))] : p \in Pages}

(* insertListing returns only the error of db.Exec *)
GoInsertListing(db, listing, dbErr) ==
    IF dbErr THEN [db |-> db, err |-> TRUE]
    ELSE [db |-> SqlInsert(db, listing).db, err |-> FALSE]

(* DELETE FROM listings WHERE posted < datetime('now', '-1 hour') *)
GoDeleteOldListings(db, t) ==
    LET keep(r) == ~(r.posted < t - Horizon)
    IN  SelectSeq(db, keep)

(* initDB: sql.Open, then the CREATE TABLE statement *)
GoInitDB(file) == SqlCreateTable(file)

NoLast == [seen |-> FALSE]
NoCyc == [fetched |-> FALSE, expires |-> 0, short |-> 0]

Bump(f, u) == [f EXCEPT ![u] = IF @ < MaxNotes THEN @ + 1 ELSE @]

Init ==
    /\ now = StartTime
    /\ store = GoInitDB(NoTable).rows
    /\ notes = [u \in Urls |-> 0]
    /\ cycles = 0
    /\ last = NoLast
    /\ cyc = NoCyc
    /\ swept = FALSE
    /\ pc = "idle"
    /\ listings = <<>>
    /\ idx = 1
    /\ tick = FALSE
    /\ delay = 0
    /\ jsMain = "start"
    /\ running = {}
    /\ pending = {}
    /\ orphans = 0
    /\ html = <<>>

(* Time passes while main waits in the select for the next tick *)
GoClockAdvance ==
    /\ pc = "idle"
    /\ now + ClockStep <= MaxTime
    /\ now' = now + ClockStep
    /\ UNCHANGED <<store, notes, cycles, hist, goVars, jsVars, html>>

(* checkTicker fires; its channel holds one tick, a further one is dropped *)
GoTickerFire ==
    /\ pc # "crashed"
    /\ ~tick
    /\ tick' = TRUE
    /\ UNCHANGED <<now, store, notes, cycles, hist, pc, listings, idx, delay,
                   jsVars, html>>

(* A loop that goes on to deleteOldListings and time.Sleep after a failed  *)
(* scrape, instead of continue                                             *)
GoScrapeFailNoContinue ==
    /\ pc = "idle" /\ tick /\ cycles < GoMaxCycles
    /\ tick' = FALSE
    /\ cycles' = cycles + 1
    /\ cyc' = [NoCyc EXCEPT !.expires = 1]
    /\ store' = GoDeleteOldListings(store, now)
    /\ swept' = TRUE
    /\ delay' = SleepBase
    /\ pc' = "sleep"
    /\ UNCHANGED <<now, notes, last, listings, idx, jsVars, html>>

(* case <-checkTicker.C, scrapeListings returns an error: continue *)
GoScrapeFail ==
    /\ pc = "idle" /\ tick /\ cycles < GoMaxCycles
    /\ tick' = FALSE
    /\ cycles' = cycles + 1
    /\ cyc' = NoCyc
    /\ pc' = "idle"
    /\ UNCHANGED <<now, store, notes, last, swept, listings, idx, delay,
                   jsVars, html>>

(* scrapeListings panics in the Each callback: index out of range *)
GoScrapePanic ==
    /\ pc = "idle" /\ tick /\ cycles < GoMaxCycles
    /\ \E r \in GoScrapes :
         /\ r.panic
         /\ cyc' = [NoCyc EXCEPT !.short = r.short]
    /\ tick' = FALSE
    /\ cycles' = cycles + 1
    /\ pc' = "crashed"
    /\ UNCHANGED <<now, store, notes, last, swept, listings, idx, delay,
                   jsVars, html>>

(* scrapeListings returns the listings of the page *)
GoScrapeOk ==
    /\ pc = "idle" /\ tick /\ cycles < GoMaxCycles
    /\ \E r \in GoScrapes :
         /\ ~r.panic
         /\ listings' = GoListings(r.out, now)
         /\ cyc' = [NoCyc EXCEPT !.fetched = TRUE, !.short = r.short]
    /\ tick' = FALSE
    /\ cycles' = cycles + 1
    /\ idx' = 1
    /\ pc' = "range"
    /\ UNCHANGED <<now, store, notes, last, swept, delay, jsVars, html>>

(* A loop that leaves the range loop when insertListing returns an error *)
GoNextIdxBreakOnError(i, n, err, sent, ok) ==
    IF err THEN n + 1 ELSE i + 1

(* A loop that offers the same listing again when its notification was not *)
(* delivered                                                               *)
GoNextIdxRetryUndelivered(i, n, err, sent, ok) ==
    IF sent /\ ~ok THEN i ELSE i + 1

(* The index the range loop goes on with after element i of n: the         *)
(* `continue` after an insert error and the end of the body both take the  *)
(* next element, whatever sendNotification printed                         *)
GoNextIdx(i, n, err, sent, ok) ==
    i + 1

(* A loop that goes on to the price condition after an insert error *)
GoSendsDespiteError(err, price) ==
    GoQualifies(price)

(* Whether the loop body calls sendNotification: the price condition is    *)
(* reached only when insertListing returned nil                            *)
GoSends(err, price) ==
    ~err /\ GoQualifies(price)

(* One iteration of `for _, listing := range listings`; ok says whether    *)
(* ntfy answers the POST of sendNotification with status 200               *)
GoProcessListing ==
    /\ pc = "range" /\ idx <= Len(listings)
    /\ \E dbErr \in BOOLEAN, ok \in BOOLEAN :
         LET listing == listings[idx]
             r == GoInsertListing(store, listing, dbErr)
             send == GoSends(r.err, listing.price)
         IN  /\ store' = r.db
             /\ notes' = IF send THEN Bump(notes, listing.listing_url)
                         ELSE notes
             /\ last' = [seen |-> TRUE,
                         url |-> listing.listing_url,
                         price |-> listing.price,
                         before |-> HasUrl(store, listing.listing_url),
                         created |-> Len(r.db) > Len(store),
                         err |-> r.err,
                         gate |-> ~r.err,
                         sent |-> send,
                         delivered |-> send /\ ok]
             /\ idx' = GoNextIdx(idx, Len(listings), r.err, send, ok)
    /\ swept' = FALSE
    /\ UNCHANGED <<now, cycles, cyc, pc, listings, tick, delay, jsVars, html>>

(* A sleep that grows with the number of listings *)
GoDelayNoMod(n) ==
    SleepBase + n

(* The seconds of time.Sleep(time.Duration(2+len(listings)%3) * time.Second) *)
GoDelay(n) ==
    SleepBase + (n % SleepMod)

(* deleteOldListings, then the time.Sleep begins *)
GoDeleteOld ==
    /\ pc = "range" /\ idx > Len(listings)
    /\ \E dbErr \in BOOLEAN :
         /\ store' = IF dbErr THEN store
                      ELSE GoDeleteOldListings(store, now)
         /\ swept' = ~dbErr
    /\ cyc' = [cyc EXCEPT !.expires = @ + 1]
    /\ delay' = GoDelay(Len(listings))
    /\ pc' = "sleep"
    /\ UNCHANGED <<now, notes, cycles, last, listings, idx, tick,
                   jsVars, html>>

(* time.Sleep returns; back to the select *)
GoSleepDone ==
    /\ pc = "sleep"
    /\ pc' = "idle"
    /\ delay' = 0
    /\ UNCHANGED <<now, store, notes, cycles, hist, listings, idx, tick,
                   jsVars, html>>

(* The program is started again after the panic: main calls initDB on the  *)
(* database file it finds and makes a new ticker.  (When initDB fails,     *)
(* main returns at once.)                                                  *)
GoRestart ==
    /\ pc = "crashed"
    /\ store' = GoInitDB(Table(store)).rows
    /\ pc' = "idle"
    /\ tick' = FALSE
    /\ listings' = <<>>
    /\ idx' = 1
    /\ delay' = 0
    /\ UNCHANGED <<now, notes, cycles, hist, jsVars, html>>

NextGo ==
    \/ GoRestart
    \/ GoClockAdvance
    \/ GoTickerFire
    \/ GoScrapeFail
    \/ GoScrapePanic
    \/ GoScrapeOk
    \/ GoProcessListing
    \/ GoDeleteOld
    \/ GoSleepDone

SpecGo == Init /\ [][NextGo]_vars

(* The end of a cycle on its own: the loop has taken n listings of the     *)
(* first page through the range loop (each a copy of one element, each     *)
(* insert failed), for every n up to MaxListings                           *)
LongListings ==
    {[i \in 1..n |-> GoListing(GoExtractOne(e).out[1], StartTime)] :
        n \in 0..MaxListings,
        e \in {x \in Elements : x.title = "sofa"}}

InitDelay ==
    /\ now = StartTime
    /\ store = <<>>
    /\ notes = [u \in Urls |-> 0]
    /\ cycles = 1
    /\ listings \in LongListings
    /\ last = IF listings = <<>> THEN NoLast
              ELSE [seen |-> TRUE, url |-> listings[1].listing_url,
                    price |-> listings[1].price, before |-> FALSE,
                    created |-> FALSE, err |-> TRUE, gate |-> FALSE,
                    sent |-> FALSE, delivered |-> FALSE]
    /\ cyc = [NoCyc EXCEPT !.fetched = TRUE]
    /\ swept = FALSE
    /\ pc = "range"
    /\ idx = Len(listings) + 1
    /\ tick = FALSE
    /\ delay = 0
    /\ jsMain = "start"
    /\ running = {}
    /\ pending = {}
    /\ orphans = 0
    /\ html = <<>>

NextDelay ==
    \/ GoDeleteOld
    \/ GoSleepDone

SpecDelay == InitDelay /\ [][NextDelay]_vars

(* The extraction on its own: scrapeListings from goquery's parse on,      *)
(* applied again and again to one body, while time passes                  *)
Fixtures == {p \in Pages : ~GoExtract(p).panic}

InitExtract ==
    /\ now = StartTime
    /\ store = <<>>
    /\ notes = [u \in Urls |-> 0]
    /\ cycles = 0
    /\ last = NoLast
    /\ cyc = NoCyc
    /\ swept = FALSE
    /\ pc = "idle"
    /\ listings = <<>>
    /\ idx = 1
    /\ tick = FALSE
    /\ delay = 0
    /\ jsMain = "start"
    /\ running = {}
    /\ pending = {}
    /\ orphans = 0
    /\ html \in Fixtures

GoExtractFixture ==
    /\ cycles < MaxExtracts
    /\ cycles' = cycles + 1
    /\ listings' = GoListings(GoExtract(html).out, now)
    /\ UNCHANGED <<now, store, notes, hist, pc, idx, tick, delay, jsVars, html>>

NextExtract ==
    \/ GoClockAdvance
    \/ GoExtractFixture

SpecExtract == InitExtract /\ [][NextExtract]_vars

----------------------------------------------------------------------------
(* main.js *)

UnknownCity == <<"U", "n", "k", "n", "o", "w", "n", " ", "C", "i", "t", "y">>

(* The callback of querySelectorAll(...).forEach inside page.evaluate *)
JsExtractOne(e) ==
    LET metaText == TrimSpace(e.meta)
        parts == Split(metaText, JsDelim)
    IN  [title |-> IF e.title = NoAttr \/ e.title = "" THEN "No title"
                   ELSE e.title,
         price |-> TrimSpace(e.price),
         city |-> IF Len(parts) >= 2 /\ parts[2] # <<>>
                  THEN TrimSpace(parts[2]) ELSE UnknownCity,
         posted |-> IF parts[1] # <<>> THEN TrimSpace(parts[1]) ELSE <<>>,
         listing_url |-> IF e.href = NoAttr THEN "" ELSE e.href]

JsExtract(p) == [i \in 1..Len(p) |-> JsExtractOne(p[i])]

(* What scrapeListings can resolve to: the items of every page *)
JsScrapes == {JsExtract(p) : p \in Pages}

JsQualifies(price) ==
    price = <<>> \/ ToLower(price) = free \/ price = parens

(* SQLite compares two TEXT values byte by byte (BINARY collation) *)
Code(c) ==
    CASE c = " " -> 32
      [] c = "-" -> 45
      [] c = "0" -> 48
      [] c = "1" -> 49
      [] c = "2" -> 50
      [] c = "3" -> 51
      [] c = "4" -> 52
      [] c = "5" -> 53
      [] c = "6" -> 54
      [] c = "7" -> 55
      [] c = "8" -> 56
      [] c = "9" -> 57
      [] c = ":" -> 58
      [] c = "C" -> 67
      [] c = "N" -> 78
      [] c = "S" -> 83
      [] c = "h" -> 104
      [] c = "m" -> 109
      [] c = "·" -> 183
      [] c = "路" -> 36335

RECURSIVE TextLess(_, _)
TextLess(a, b) ==
    IF b = <<>> THEN FALSE
    ELSE IF a = <<>> THEN TRUE
    ELSE IF Code(Head(a)) # Code(Head(b)) THEN Code(Head(a)) < Code(Head(b))
    ELSE TextLess(Tail(a), Tail(b))

Digit(n) ==
    CASE n = 0 -> "0" [] n = 1 -> "1" [] n = 2 -> "2" [] n = 3 -> "3"
      [] n = 4 -> "4" [] n = 5 -> "5" [] n = 6 -> "6" [] n = 7 -> "7"
      [] n = 8 -> "8" [] n = 9 -> "9"

(* datetime(...) yields 'YYYY-MM-DD HH:MM:SS'; minute t of 2024-01-01 *)
DateTimeText(t) ==
    LET h == t \div 60
        m == t % 60
    IN  <<"2", "0", "2", "4", "-", "0", "1", "-", "0", "1", " ",
          Digit(h \div 10), Digit(h % 10), ":",
          Digit(m \div 10), Digit(m % 10), ":", "0", "0">>

(* DELETE FROM listings WHERE posted < datetime('now', '-1 hour'):        *)
(* posted holds the text main.js stored, the comparison is on text         *)
JsDeleteOldListings(db, t) ==
    LET keep(r) == ~TextLess(r.posted, DateTimeText(t - Horizon))
    IN  SelectSeq(db, keep)

(* UPDATE listings SET notified = 1 WHERE listing_url = ? *)
JsMarkAsNotified(db, url) ==
    [i \in 1..Len(db) |->
        IF db[i].listing_url = url THEN [db[i] EXCEPT !.notified = 1]
        ELSE db[i]]

(* The row INSERT stores: notified DEFAULT 0.  The field at is the time    *)
(* the row was created; it is no column of the table.                      *)
JsRow(listing, t) ==
    [title |-> listing.title, price |-> listing.price, city |-> listing.city,
     posted |-> listing.posted, listing_url |-> listing.listing_url,
     notified |-> 0, at |-> t]

InsertOps(ls, src) ==
    {[kind |-> "insert", src |-> src, k |-> i, listing |-> ls[i]] :
        i \in 1..Len(ls)}

DeleteOp == [kind |-> "delete", src |-> "interval", k |-> 0]

(* Time passes while no statement is waiting to execute *)
JsClockAdvance ==
    /\ jsMain # "dead"
    /\ pending = {}
    /\ now + ClockStep <= MaxTime
    /\ now' = now + ClockStep
    /\ UNCHANGED <<store, notes, cycles, hist, goVars, jsVars, html>>

(* main() calls processListings(), which awaits scrapeListings() *)
JsMainStart ==
    /\ jsMain = "start"
    /\ jsMain' = "await"
    /\ cycles' = cycles + 1
    /\ running' = {[src |-> "main", n |-> cycles + 1]}
    /\ UNCHANGED <<now, store, notes, hist, pending, orphans, goVars, html>>

(* setInterval's timer fires: the callback calls processListings() *)
JsTimerFire ==
    /\ jsMain = "interval" /\ cycles < JsMaxCalls
    /\ cycles' = cycles + 1
    /\ running' = running \cup {[src |-> "interval", n |-> cycles + 1]}
    /\ UNCHANGED <<now, store, notes, hist, pending, orphans, jsMain, goVars, html>>

(* scrapeListings() rejects: puppeteer.launch throws and no browser is     *)
(* open, or newPage, goto, waitForTimeout or evaluate throws and the       *)
(* browser is, browser.close() being reached on the normal path only.      *)
(* Nothing catches the rejection: in main() setInterval is never reached;  *)
(* in the interval callback the unhandled rejection ends the process or    *)
(* is only reported, depending on the runtime.                             *)
JsScrapeThrows ==
    /\ jsMain # "dead"
    /\ \E c \in running, fatal \in BOOLEAN, launched \in BOOLEAN :
         /\ orphans' = IF launched THEN orphans + 1 ELSE orphans
         /\ IF c.src = "main" \/ fatal
            THEN /\ jsMain' = "dead"
                 /\ running' = {}
                 /\ pending' = {}
            ELSE /\ running' = running \ {c}
                 /\ UNCHANGED <<jsMain, pending>>
    /\ UNCHANGED <<now, store, notes, cycles, hist, goVars, html>>

(* scrapeListings() resolves: processListings hands one INSERT per listing *)
(* to db.run; the interval callback then calls deleteOldListings(); main() *)
(* instead goes on to setInterval.  A scrape waits ten seconds in          *)
(* waitForTimeout; the statements of the batch before it have executed.    *)
(* The call has closed its browser.                                        *)
JsScrapeDone ==
    /\ jsMain # "dead"
    /\ pending = {}
    /\ \E c \in running, ls \in JsScrapes :
         LET del == IF c.src = "interval" THEN {DeleteOp} ELSE {}
         IN  /\ pending' = pending \cup InsertOps(ls, c.src) \cup del
             /\ running' = running \ {c}
             /\ jsMain' = IF c.src = "main" THEN "interval" ELSE jsMain
    /\ UNCHANGED <<now, store, notes, cycles, hist, orphans, goVars, html>>

(* An INSERT executes and its callback runs *)
JsRunInsert ==
    /\ jsMain # "dead"
    /\ \E op \in pending, dbErr \in BOOLEAN :
         /\ op.kind = "insert"
         /\ LET l == op.listing
                r == IF dbErr THEN [db |-> store, changes |-> 0]
                     ELSE SqlInsert(store, JsRow(l, now))
                send == ~dbErr /\ r.changes > 0 /\ JsQualifies(l.price)
                upd == IF send
                       THEN {[kind |-> "update", url |-> l.listing_url]}
                       ELSE {}
            IN  /\ store' = r.db
                /\ notes' = IF send THEN Bump(notes, l.listing_url) ELSE notes
                /\ pending' = (pending \ {op}) \cup upd
    /\ swept' = FALSE
    /\ UNCHANGED <<now, cycles, last, cyc, jsMain, running, orphans, goVars, html>>

(* The UPDATE of markAsNotified executes *)
JsRunUpdate ==
    /\ jsMain # "dead"
    /\ \E op \in pending, dbErr \in BOOLEAN :
         /\ op.kind = "update"
         /\ store' = IF dbErr THEN store ELSE JsMarkAsNotified(store, op.url)
         /\ pending' = pending \ {op}
    /\ swept' = FALSE
    /\ UNCHANGED <<now, notes, cycles, last, cyc, jsMain, running, orphans,
                   goVars, html>>

(* The DELETE of deleteOldListings executes *)
JsRunDelete ==
    /\ jsMain # "dead"
    /\ \E op \in pending, dbErr \in BOOLEAN :
         /\ op.kind = "delete"
         /\ store' = IF dbErr THEN store
                      ELSE JsDeleteOldListings(store, now)
         /\ swept' = ~dbErr
         /\ pending' = pending \ {op}
    /\ UNCHANGED <<now, notes, cycles, last, cyc, jsMain, running, orphans,
                   goVars, html>>

NextJs ==
    \/ JsClockAdvance
    \/ JsMainStart
    \/ JsTimerFire
    \/ JsScrapeThrows
    \/ JsScrapeDone
    \/ JsRunInsert
    \/ JsRunUpdate
    \/ JsRunDelete

SpecJs == Init /\ [][NextJs]_vars

----------------------------------------------------------------------------
(* Properties *)

(* A qualifying price: empty, "free" in any case, or "()" *)
QualifyingPrice(price) ==
    price = <<>> \/ ToLower(price) = free \/ price = parens

RowsWith(db, url) == {i \in 1..Len(db) : db[i].listing_url = url}

(* C1: a candidate is notified if and only if its Insert created the row   *)
(* and its price qualifies; a candidate whose listing_url was stored       *)
(* before the Insert is not notified.                                      *)
C1_NotifyIffCreatedAndQualifying ==
    last.seen =>
        /\ last.sent <=> (last.created /\ QualifyingPrice(last.price))
        /\ last.before => ~last.sent

(* The listing_urls that are detail links *)
Links == Urls \ {""}

(* C2: at most one notification is ever dispatched for a listing_url.      *)
C2_AtMostOneNotification ==
    \A u \in Links : notes[u] <= 1

(* C3: the store holds at most one row per listing_url.                    *)
C3_OneRowPerUrl ==
    \A u \in Urls : Cardinality(RowsWith(store, u)) <= 1

(* An Insert of a listing_url that was stored already has run, without     *)
(* error, and the store holds one row with that listing_url and a row of   *)
(* another one.                                                            *)
C3_Witness ==
    /\ last.seen /\ last.before /\ ~last.err
    /\ Cardinality(RowsWith(store, last.url)) = 1
    /\ Len(store) = 2

(* C4: what the loop takes from Insert as "newly created", and decides     *)
(* the notification on, is true exactly when the listing_url was absent    *)
(* from the store before the call.                                         *)
C4_DecisionFromCreated ==
    (last.seen /\ ~last.err) => (last.gate <=> ~last.before)

(* C5: no error inside a cycle terminates the monitor: it has no terminal  *)
(* state.                                                                  *)
C5_NoTerminalState ==
    jsMain # "dead"

(* C6: at most one cycle is in progress at any time.                       *)
C6_CyclesNeverOverlap ==
    Cardinality(running) <= 1

(* C7: the expiry of a cycle whose fetch succeeded runs once, after every  *)
(* Insert of that cycle: as long as an Insert of the cycle is still to     *)
(* execute, its expiry is still to come.                                   *)
C7_ExpireOnceAfterInserts ==
    \A op \in pending : op.kind = "insert" => DeleteOp \in pending

(* C8: when an expiry has run, no stored row of a listing is older than    *)
(* the retention horizon and every such row within the horizon is still   *)
(* stored.                                                                 *)
C8_ExpireByAge ==
    [][(DeleteOp \in pending /\ DeleteOp \notin pending' /\ swept'
            /\ jsMain' # "dead")
        => /\ \A j \in 1..Len(store') :
                store'[j].listing_url \in Links
                    => store'[j].at >= now - Horizon
           /\ \A i \in 1..Len(store) :
                (store[i].listing_url \in Links
                    /\ store[i].at >= now - Horizon)
                    => \E j \in 1..Len(store') : store'[j] = store[i]]_vars

(* A step of the Go loop in which the fetch of a new cycle fails *)
FetchFailed ==
    cycles' = cycles + 1 /\ ~cyc'.fetched /\ pc' # "crashed"

(* C9 as claimed: a failed fetch changes nothing in the store, notifies    *)
(* nobody, and takes the loop to the post-cycle delay.                     *)
C9_FetchFailureGoesToDelay ==
    [][FetchFailed
        => store' = store /\ notes' = notes /\ pc' = "sleep"]_vars

(* C9 as amended: a failed fetch changes nothing in the store, notifies    *)
(* nobody, runs no expiry, and takes the loop straight back to Idle,       *)
(* without the post-cycle delay.                                           *)
C9_FetchFailureBackToIdle ==
    [][FetchFailed
        => /\ store' = store /\ notes' = notes /\ last' = last
           /\ cyc'.expires = 0 /\ swept' = swept
           /\ pc' = "idle" /\ delay' = delay]_vars

(* A fetch has failed in a cycle that found rows in the store *)
C9_Witness ==
    cycles > 1 /\ ~cyc.fetched /\ pc = "idle" /\ store # <<>>

(* C10: an element whose metadata has too few parts is skipped; the        *)
(* extractor does not index out of range.                                  *)
C10_ShortMetaSkipped ==
    cyc.short > 0 => pc # "crashed"

(* C11: every stored row has a listing_url that is a detail link: a        *)
(* candidate without one never reaches the store.                          *)
C11_EveryRowHasLink ==
    \A i \in 1..Len(store) : store[i].listing_url \in Links

(* C12: when the Insert of a candidate fails, the loop takes the next      *)
(* candidate (the failed one is not offered again, the store is as it      *)
(* was), the range loop is left only when every candidate of the cycle     *)
(* has been offered, and it is left through the cycle's one expiry.        *)
C12_InsertFailureSkipsOnlyThatCandidate ==
    /\ [][(pc = "range" /\ idx <= Len(listings) /\ tick' = tick
                /\ last'.seen /\ last'.err)
            => (idx' = idx + 1 /\ pc' = "range" /\ store' = store)]_vars
    /\ [][(pc = "range" /\ pc' # "range")
            => (idx = Len(listings) + 1 /\ pc' = "sleep"
                    /\ cyc'.expires = cyc.expires + 1)]_vars
    /\ [](pc = "sleep" => (idx = Len(listings) + 1 /\ cyc.expires = 1))

(* The Insert of the first of two candidates failed, the second one was    *)
(* inserted and notified, and the expiry of the cycle has run.             *)
C12_Witness ==
    /\ pc = "sleep" /\ Len(listings) = 2 /\ cyc.expires = 1
    /\ ~HasUrl(store, listings[1].listing_url)
    /\ last.seen /\ last.url = listings[2].listing_url
    /\ last.created /\ last.sent

(* The fields of a row that are set from the candidate *)
Core(r) == <<r.title, r.price, r.city, r.posted>>

(* C13: no step changes title, price, city or posted of a row that stays   *)
(* stored, in particular not the Insert of a candidate with the same       *)
(* listing_url and other values.                                           *)
C13_StoredFieldsImmutable ==
    [][\A i \in 1..Len(store), j \in 1..Len(store') :
          store[i].listing_url = store'[j].listing_url
              => Core(store'[j]) = Core(store[i])]_vars

(* The Insert of a candidate has run without error whose listing_url was   *)
(* stored and whose price is not the stored one.                           *)
C13_Witness ==
    /\ last.seen /\ last.before /\ ~last.err
    /\ \E i \in 1..Len(store) :
          store[i].listing_url = last.url /\ store[i].price # last.price

(* C14: the sleep after a cycle that saw N listings lasts at least         *)
(* SleepBase and less than SleepBase + SleepMod seconds, for every N.      *)
C14_DelayInRange ==
    pc = "sleep" => (delay >= SleepBase /\ delay < SleepBase + SleepMod)

(* The sleep of a cycle with more listings than the modulus is the         *)
(* longest one.                                                            *)
C14_Witness ==
    /\ pc = "sleep" /\ Len(listings) > 2 * SleepMod
    /\ delay = SleepBase + SleepMod - 1

(* C15: when the notification of a candidate is not delivered, the store   *)
(* is what the Insert alone made of it (the row stays stored), the         *)
(* notification was dispatched once, and the loop takes the next           *)
(* candidate.                                                              *)
C15_FailedDeliveryChangesNothing ==
    [][(pc = "range" /\ idx <= Len(listings) /\ tick' = tick
            /\ last'.sent /\ ~last'.delivered)
        => /\ store' = GoInsertListing(store, listings[idx], FALSE).db
           /\ HasUrl(store', listings[idx].listing_url)
           /\ notes'[listings[idx].listing_url]
                <= notes[listings[idx].listing_url] + 1
           /\ idx' = idx + 1 /\ pc' = "range"]_vars

(* The notification of the first of two candidates was not delivered; its  *)
(* row is stored and the second candidate is next.                         *)
C15_Witness ==
    /\ pc = "range" /\ Len(listings) = 2 /\ idx = 2
    /\ last.seen /\ last.created /\ last.sent /\ ~last.delivered
    /\ HasUrl(store, last.url)

(* C16: while the monitor runs, no browser stays open once the             *)
(* scrapeListings call that launched it has returned or thrown.            *)
C16_BrowserReleased ==
    jsMain # "dead" => orphans = 0

(* C17: the extraction applied once more to the same body returns the      *)
(* same records, posted included, in the same order.                       *)
C17_ExtractionDeterministic ==
    [][(cycles >= 1 /\ cycles' = cycles + 1) => listings' = listings]_vars

(* C18: initDB on a database that holds rows leaves every row as it was,   *)
(* and a second initDB changes nothing the first one made, with or         *)
(* without a table to begin with.                                          *)
C18_InitializeIdempotent ==
    [][(pc = "crashed" /\ pc' = "idle")
        => /\ store' = store
           /\ GoInitDB(GoInitDB(Table(store))) = GoInitDB(Table(store))
           /\ GoInitDB(GoInitDB(NoTable)) = GoInitDB(NoTable)]_vars

(* The program has started again on a database of two rows and has begun   *)
(* no cycle since.                                                         *)
C18_Witness ==
    pc = "idle" /\ ~cyc.fetched /\ cyc.short > 0 /\ Len(store) = 2

(* C19: in the loop of craigslist_bot.go, a candidate whose insertListing  *)
(* returned an error is not notified, whatever its price.                  *)
C19_InsertErrorNeverNotified ==
    [][(pc = "range" /\ idx <= Len(listings) /\ tick' = tick
            /\ last'.seen /\ last'.err)
        => (~last'.sent /\ notes' = notes)]_vars

(* The insertListing of a candidate with a qualifying price returned an    *)
(* error, and no notification has been dispatched for its listing_url.     *)
C19_Witness ==
    /\ last.seen /\ last.err /\ QualifyingPrice(last.price)
    /\ ~last.sent /\ notes[last.url] = 0

(* C20: in main.js a stored row of a listing has notified = 1 only if the  *)
(* row was created with a qualifying price, so that its Insert dispatched  *)
(* a notification for its listing_url.                                     *)
C20_NotifiedOnlyAfterNotification ==
    \A i \in 1..Len(store) :
        (store[i].listing_url \in Links /\ store[i].notified = 1)
            => (JsQualifies(store[i].price)
                    /\ notes[store[i].listing_url] >= 1)

=============================================================================
